---- MODULE Spec2Model ----
(***************************************************************************)
(* The Courrieu pseudoinverse routine mp_pinv of ELM.ipynb and the ELM     *)
(* training / test cells that call it.                                     *)
(*                                                                         *)
(* Numbers are binary floating-point values <<m, e>> (value m * 2^e) with  *)
(* a MantBits-bit significand and round-to-nearest-even after every        *)
(* operation, as numpy's float64 arithmetic does with 53 bits; the         *)
(* exponent range is unbounded (no overflow, no underflow).  Matrices are  *)
(* sequences of rows.                                                      *)
(***************************************************************************)
EXTENDS Integers, Sequences, FiniteSets, TLC

\* Width of the significand (float64 has 53).
MantBits == 13

----------------------------------------------------------------------------
(* Floating-point arithmetic (numpy float64 semantics at MantBits bits).   *)

Zero == <<0, 0>>

Abs(x) == IF x < 0 THEN -x ELSE x

Sign(x) == IF x < 0 THEN -1 ELSE 1

RECURSIVE BitLen(_)
BitLen(a) == IF a = 0 THEN 0 ELSE 1 + BitLen(a \div 2)

\* n * 2^e rounded to MantBits significant bits, ties to even.
Round(n, e) ==
  IF n = 0 THEN Zero
  ELSE LET a  == Abs(n)
           bl == BitLen(a)
       IN IF bl <= MantBits
          THEN <<Sign(n) * a * 2^(MantBits - bl), e - (MantBits - bl)>>
          ELSE LET d    == bl - MantBits
                   q    == a \div 2^d
                   r    == a % 2^d
                   half == 2^(d - 1)
                   q2   == IF r > half \/ (r = half /\ q % 2 = 1)
                           THEN q + 1 ELSE q
               IN IF q2 = 2^MantBits
                  THEN <<Sign(n) * 2^(MantBits - 1), e + d + 1>>
                  ELSE <<Sign(n) * q2, e + d>>

FromInt(n) == Round(n, 0)

FNeg(a) == <<-a[1], a[2]>>

FAbs(a) == <<Abs(a[1]), a[2]>>

FMul(a, b) == Round(a[1] * b[1], a[2] + b[2])

\* a + b with a[2] >= b[2]; an addend below a quarter ulp is absorbed.
FAddOrdered(a, b) ==
  IF a[2] - b[2] >= MantBits + 2 THEN a
  ELSE Round(a[1] * 2^(a[2] - b[2]) + b[1], b[2])

FAdd(a, b) ==
  IF a[1] = 0 THEN b
  ELSE IF b[1] = 0 THEN a
  ELSE IF a[2] >= b[2] THEN FAddOrdered(a, b) ELSE FAddOrdered(b, a)

FSub(a, b) == FAdd(a, FNeg(b))

\* a / b, b nonzero: quotient with a guard bit and a sticky bit, rounded.
FDiv(a, b) ==
  IF a[1] = 0 THEN Zero
  ELSE LET num == Abs(a[1]) * 2^(MantBits + 1)
           q   == num \div Abs(b[1])
           st  == IF num % Abs(b[1]) = 0 THEN 0 ELSE 1
       IN Round(Sign(a[1]) * Sign(b[1]) * (2 * q + st),
                a[2] - b[2] - (MantBits + 1) - 1)

RECURSIVE ISqrtBetween(_, _, _)
\* The r with r*r <= x < (r+1)*(r+1), given lo*lo <= x < hi*hi.
ISqrtBetween(x, lo, hi) ==
  IF hi - lo <= 1 THEN lo
  ELSE LET mid == (lo + hi) \div 2
       IN IF mid * mid <= x THEN ISqrtBetween(x, mid, hi)
          ELSE ISqrtBetween(x, lo, mid)

\* sqrt(a), a > 0, correctly rounded.
FSqrt(a) ==
  LET k  == IF (a[2] - (MantBits + 1)) % 2 = 0 THEN MantBits + 1
            ELSE MantBits + 2
      x  == a[1] * 2^k
      r  == ISqrtBetween(x, 0, 2^(MantBits + 1))
      st == IF r * r = x THEN 0 ELSE 1
  IN Round(2 * r + st, (a[2] - k) \div 2 - 1)

FLess(a, b) == FSub(b, a)[1] > 0

----------------------------------------------------------------------------
(* Matrices and the numpy operations mp_pinv calls.                        *)

\* What a failed numpy call leaves in place of a matrix.
NoMatrix == <<>>

IsMatrix(X) == Len(X) > 0

Rows(X) == Len(X)

Cols(X) == IF Len(X) = 0 THEN 0 ELSE Len(X[1])

Shape(X) == <<Rows(X), Cols(X)>>

\* G.T
Transpose(X) ==
  IF ~IsMatrix(X) THEN NoMatrix
  ELSE [j \in 1..Cols(X) |-> [i \in 1..Rows(X) |-> X[i][j]]]

RECURSIVE Dot(_, _, _, _, _)
\* sum over s = 1..t of X[i][s] * Y[s][j], accumulated left to right.
Dot(X, Y, i, j, t) ==
  IF t = 1 THEN FMul(X[i][1], Y[1][j])
  ELSE FAdd(Dot(X, Y, i, j, t - 1), FMul(X[i][t], Y[t][j]))

\* np.matmul(X, Y); NoMatrix when the shapes do not conform (ValueError).
MatMul(X, Y) ==
  IF ~IsMatrix(X) \/ ~IsMatrix(Y) \/ Cols(X) # Rows(Y) THEN NoMatrix
  ELSE [i \in 1..Rows(X) |-> [j \in 1..Cols(Y) |-> Dot(X, Y, i, j, Cols(X))]]

RECURSIVE SubDot(_, _, _, _, _)
\* x - sum over s = 1..t of L[i][s] * L[j][s].
SubDot(x, L, i, j, t) ==
  IF t = 0 THEN x
  ELSE FSub(SubDot(x, L, i, j, t - 1), FMul(L[i][t], L[j][t]))

RECURSIVE CholFrom(_, _, _)
\* Columns j.. of the lower Cholesky factor of A; NoMatrix at a pivot <= 0.
CholFrom(A, L, j) ==
  IF j > Rows(A) THEN L
  ELSE LET d == SubDot(A[j][j], L, j, j, j - 1)
       IN IF d[1] <= 0 THEN NoMatrix
          ELSE LET djj == FSqrt(d)
                   Lj  == [i \in 1..Rows(A) |-> [c \in 1..Rows(A) |->
                            IF c # j \/ i < j THEN L[i][c]
                            ELSE IF i = j THEN djj
                            ELSE FDiv(SubDot(A[i][j], L, i, j, j - 1), djj)]]
               IN CholFrom(A, Lj, j + 1)

ZeroMatrix(k) == [i \in 1..k |-> [j \in 1..k |-> Zero]]

Identity(k) == [i \in 1..k |-> [j \in 1..k |-> IF i = j THEN FromInt(1) ELSE Zero]]

\* np.linalg.cholesky(A): the lower factor, or NoMatrix (LinAlgError).
Cholesky(A) == CholFrom(A, ZeroMatrix(Rows(A)), 1)

RECURSIVE PivotRow(_, _, _, _)
\* The first row in j..Rows(U) whose entry in column j is largest in size.
PivotRow(U, j, i, best) ==
  IF i > Rows(U) THEN best
  ELSE IF FLess(FAbs(U[best][j]), FAbs(U[i][j])) THEN PivotRow(U, j, i + 1, i)
  ELSE PivotRow(U, j, i + 1, best)

SwapRows(X, a, b) ==
  [i \in 1..Rows(X) |-> IF i = a THEN X[b] ELSE IF i = b THEN X[a] ELSE X[i]]

\* Row i of X minus l times row j, for the rows i below j.
Eliminate(X, U, j) ==
  [i \in 1..Rows(X) |->
     IF i <= j THEN X[i]
     ELSE [c \in 1..Cols(X) |->
             FSub(X[i][c], FMul(FDiv(U[i][j], U[j][j]), X[j][c]))]]

RECURSIVE LUFrom(_, _, _)
\* Gaussian elimination with partial pivoting on U and the right-hand side
\* B from column j on: <<U, B>>, or NoMatrix at a zero pivot.
LUFrom(U, B, j) ==
  IF j > Rows(U) THEN <<U, B>>
  ELSE LET p == PivotRow(U, j, j + 1, j)
       IN IF U[p][j][1] = 0 THEN NoMatrix
          ELSE LET Us == SwapRows(U, j, p)
                   Bs == SwapRows(B, j, p)
               IN LUFrom(Eliminate(Us, Us, j), Eliminate(Bs, Us, j), j + 1)

RECURSIVE BackSub(_, _, _, _)
RECURSIVE BackAcc(_, _, _, _, _)
\* B[i][c] - sum over s = i+1..t of U[i][s] * x[s].
BackAcc(U, B, c, i, t) ==
  IF t = i THEN B[i][c]
  ELSE FSub(BackAcc(U, B, c, i, t - 1), FMul(U[i][t], BackSub(U, B, c, t)))

\* Entry i of the solution x of U x = B[.][c], U upper triangular.
BackSub(U, B, c, i) == FDiv(BackAcc(U, B, c, i, Rows(U)), U[i][i])

\* np.linalg.inv(X): LU with partial pivoting, then the solve of X Z = I;
\* NoMatrix when X is exactly singular (LinAlgError).
Inverse(X) ==
  LET lu == LUFrom(X, Identity(Rows(X)), 1)
  IN IF lu = NoMatrix THEN NoMatrix
     ELSE [i \in 1..Rows(X) |-> [c \in 1..Rows(X) |-> BackSub(lu[1], lu[2], c, i)]]

----------------------------------------------------------------------------
(* mp_pinv, statement by statement.                                        *)

VARIABLES
  G,          \* the array the caller passes (mp_pinv holds a reference to it)
  pc,         \* position in mp_pinv: idle, branch, cholesky, inverse,
              \* assemble, return, done
  m, n,       \* mp_pinv's locals
  transpose,
  A, L, M, Y,
  path,       \* which assembly statement ran: none, transpose, direct
  outcome,    \* how the call ended: none, returned, LinAlgError, ValueError
  message,    \* the text of the exception raised
  ret,        \* the matrix the caller received
  first,      \* the comparing caller's record of its first call
  elm         \* the ELM cells' variables

pinvVars == <<pc, m, n, transpose, A, L, M, Y, path, outcome, message, ret>>

vars == <<G, pinvVars, first, elm>>

\* A faulty variant: the flag keeps the value an earlier call left.
TransposeStale == transpose

\* transpose = False
TransposeInit == FALSE

\* A faulty variant: a square input takes the wide branch.
BranchTransposeOrSquare(rows, cols) == rows <= cols

\* if m < n:
BranchTranspose(rows, cols) == rows < cols

\* A faulty variant: the two Gram products exchanged.
GramSwapped(X, tr) ==
  IF tr THEN MatMul(Transpose(X), X) ELSE MatMul(X, Transpose(X))

\* A = np.matmul(G, G.T) in the wide branch, np.matmul(G.T, G) otherwise.
GramMatrix(X, tr) ==
  IF tr THEN MatMul(X, Transpose(X)) ELSE MatMul(Transpose(X), X)

\* n = m in the wide branch; n keeps the column count otherwise.
EffectiveDim(rows, cols, tr) == IF tr THEN rows ELSE cols

\* M = np.linalg.inv(np.matmul(L.T, L))
InnerInverse(X) == Inverse(MatMul(Transpose(X), X))

\* Y = G.T * L * M * M * L.T
AssembleTransposed(X, F, W) ==
  MatMul(MatMul(MatMul(MatMul(Transpose(X), F), W), W), Transpose(F))

\* A faulty variant: the last factor is G instead of G.T.
AssembleDirectNoTranspose(X, F, W) ==
  MatMul(MatMul(MatMul(MatMul(F, W), W), Transpose(F)), X)

\* Y = L * M * M * L.T * G.T
AssembleDirect(X, F, W) ==
  MatMul(MatMul(MatMul(MatMul(F, W), W), Transpose(F)), Transpose(X))

NotPositiveDefinite == "Matrix is not positive definite"

SingularMatrix == "Singular matrix"

ShapeMismatch == "matmul: dimension mismatch"

\* The ELM cells' variables before the cells run.
ElmOff ==
  [ip |-> 0, status |-> "off", calls |-> 0, trueT |-> NoMatrix,
   H |-> NoMatrix, H_cross |-> NoMatrix, beta_i |-> NoMatrix, Y |-> NoMatrix,
   H_test |-> NoMatrix, testY |-> NoMatrix, Ypred |-> NoMatrix]

\* The caller's record before any call has completed.
NoCall ==
  [set |-> FALSE, arg |-> NoMatrix, outcome |-> "none", message |-> "",
   ret |-> NoMatrix, transpose |-> FALSE, between |-> FALSE]

\* An exception leaves mp_pinv: the frame is abandoned where it stands.
Raise(exc, msg) ==
  /\ pc' = "done"
  /\ outcome' = exc
  /\ message' = msg
  /\ ret' = NoMatrix

\* def mp_pinv(G): m,n = G.shape; transpose = False
Enter(X) ==
  /\ pc = "idle"
  /\ G' = X
  /\ pc' = "branch"
  /\ m' = Rows(X)
  /\ n' = Cols(X)
  /\ transpose' = TransposeInit
  /\ A' = NoMatrix /\ L' = NoMatrix /\ M' = NoMatrix /\ Y' = NoMatrix
  /\ path' = "none"
  /\ outcome' = "none"
  /\ message' = ""
  /\ ret' = NoMatrix

\* if m < n: ... else: ...
Branch ==
  /\ pc = "branch"
  /\ LET tr  == IF BranchTranspose(m, n) THEN TRUE ELSE transpose
         gram == GramMatrix(G, tr)
     IN /\ transpose' = tr
        /\ n' = EffectiveDim(m, n, tr)
        /\ A' = gram
        /\ IF IsMatrix(gram)
           THEN /\ pc' = "cholesky"
                /\ UNCHANGED <<outcome, message, ret>>
           ELSE Raise("ValueError", ShapeMismatch)
  /\ UNCHANGED <<G, m, L, M, Y, path, first, elm>>

\* L = np.linalg.cholesky(A)
CholeskyStep ==
  /\ pc = "cholesky"
  /\ LET f == Cholesky(A)
     IN /\ L' = f
        /\ IF IsMatrix(f)
           THEN /\ pc' = "inverse"
                /\ UNCHANGED <<outcome, message, ret>>
           ELSE Raise("LinAlgError", NotPositiveDefinite)
  /\ UNCHANGED <<G, m, n, transpose, A, M, Y, path, first, elm>>

\* M = np.linalg.inv(np.matmul(L.T,L))
InverseStep ==
  /\ pc = "inverse"
  /\ LET w == InnerInverse(L)
     IN /\ M' = w
        /\ IF IsMatrix(w)
           THEN /\ pc' = "assemble"
                /\ UNCHANGED <<outcome, message, ret>>
           ELSE Raise("LinAlgError", SingularMatrix)
  /\ UNCHANGED <<G, m, n, transpose, A, L, Y, path, first, elm>>

\* if transpose: Y = ... else: Y = ...
Assemble ==
  /\ pc = "assemble"
  /\ LET y == IF transpose THEN AssembleTransposed(G, L, M)
              ELSE AssembleDirect(G, L, M)
     IN /\ Y' = y
        /\ path' = IF transpose THEN "transpose" ELSE "direct"
        /\ IF IsMatrix(y)
           THEN /\ pc' = "return"
                /\ UNCHANGED <<outcome, message, ret>>
           ELSE Raise("ValueError", ShapeMismatch)
  /\ UNCHANGED <<G, m, n, transpose, A, L, M, first, elm>>

\* return Y
Return ==
  /\ pc = "return"
  /\ pc' = "done"
  /\ outcome' = "returned"
  /\ ret' = Y
  /\ UNCHANGED <<G, m, n, transpose, A, L, M, Y, path, message, first, elm>>

\* The steps inside mp_pinv.
Step == Branch \/ CholeskyStep \/ InverseStep \/ Assemble \/ Return

----------------------------------------------------------------------------
(* Callers.                                                                *)

SmallInts == {-1, 0, 1, 2}

Counts == {0, 1, 2}

Shapes == {<<1, 1>>, <<1, 2>>, <<2, 1>>, <<2, 2>>}

WideTall == {<<2, 3>>, <<3, 2>>}

MatricesOver(shape, ints) ==
  [1..shape[1] -> [1..shape[2] -> {FromInt(v) : v \in ints}]]

\* 1 + 2^(1 - MantBits), the float next above 1.
OnePlusUlp == <<2^(MantBits - 1) + 1, 1 - MantBits>>

\* 2^MantBits: its square absorbs an added 1.
Huge == <<2^(MantBits - 1), 1>>

\* 2^(MantBits \div 2 + 1): its square survives beside the square of Huge.
Large == <<2^(MantBits - 1), (MantBits \div 2) + 2 - MantBits>>

\* Full-rank matrices of large condition number.
IllConditioned ==
  { <<<<FromInt(1), FromInt(1)>>, <<FromInt(1), OnePlusUlp>>>>,
    <<<<FromInt(1), Huge>>, <<Zero, FromInt(1)>>>>,
    <<<<FromInt(1), Huge>>, <<Zero, Large>>>> }

Inputs ==
  UNION {MatricesOver(s, SmallInts) : s \in Shapes}
    \cup UNION {MatricesOver(s, Counts) : s \in WideTall}
    \cup IllConditioned

Init ==
  /\ G = NoMatrix
  /\ pc = "idle"
  /\ m = 0 /\ n = 0
  /\ transpose = FALSE
  /\ A = NoMatrix /\ L = NoMatrix /\ M = NoMatrix /\ Y = NoMatrix
  /\ path = "none"
  /\ outcome = "none"
  /\ message = ""
  /\ ret = NoMatrix
  /\ first = NoCall
  /\ elm = ElmOff

\* A caller passes any matrix.
Call ==
  /\ \E X \in Inputs : Enter(X)
  /\ UNCHANGED <<first, elm>>

\* The caller takes the result or the exception and goes on.
Resume ==
  /\ pc = "done"
  /\ pc' = "idle"
  /\ UNCHANGED <<G, m, n, transpose, A, L, M, Y, path, outcome, message, ret,
                 first, elm>>

Next == Call \/ Step \/ Resume

Spec == Init /\ [][Next]_vars

----------------------------------------------------------------------------
(* A caller that keeps what its first call gave and compares later calls   *)
(* with it.                                                                *)

SeqInputs == UNION {MatricesOver(s, Counts) : s \in Shapes}

CallAgain ==
  /\ \E X \in SeqInputs : Enter(X)
  /\ UNCHANGED <<first, elm>>

Keep ==
  /\ pc = "done"
  /\ pc' = "idle"
  /\ first' = IF ~first.set
              THEN [set |-> TRUE, arg |-> G, outcome |-> outcome,
                    message |-> message, ret |-> ret, transpose |-> transpose,
                    between |-> FALSE]
              ELSE [first EXCEPT !.between = first.between \/ G # first.arg]
  /\ UNCHANGED <<G, m, n, transpose, A, L, M, Y, path, outcome, message, ret, elm>>

NextSeq == CallAgain \/ Step \/ Keep

SpecSeq == Init /\ [][NextSeq]_vars

----------------------------------------------------------------------------
(* The ELM training and test cells.                                        *)

\* Hidden neurons (n_hidden) and training samples (n_train) of the model.
NHidden == 2

NTrain == 1

Quarter == <<2^(MantBits - 1), -1 - MantBits>>

Half == <<2^(MantBits - 1), -MantBits>>

\* Values of sigmoid(w x + b) for the random weights and biases.
SigVals == {Quarter, Half, FAdd(Half, Quarter)}

\* A faulty variant: the test cell computes the pseudoinverse again.
ElmProgramRecomputing ==
  <<"H", "H_cross", "beta_i", "Y", "H_test", "H_cross", "testY", "Ypred">>

\* The statements of the training cell and of the test cell, in order.
ElmProgram == <<"H", "H_cross", "beta_i", "Y", "H_test", "testY", "Ypred">>

Statement == IF elm.ip \in 1..Len(ElmProgram) THEN ElmProgram[elm.ip] ELSE "end"

Advance(e) ==
  [e EXCEPT !.ip = e.ip + 1,
            !.status = IF e.ip = Len(ElmProgram) THEN "finished" ELSE e.status]

\* true = Ytrain.reshape(n_train,1).T, used as true.T
InitElm ==
  /\ G = NoMatrix
  /\ pc = "idle"
  /\ m = 0 /\ n = 0
  /\ transpose = FALSE
  /\ A = NoMatrix /\ L = NoMatrix /\ M = NoMatrix /\ Y = NoMatrix
  /\ path = "none"
  /\ outcome = "none"
  /\ message = ""
  /\ ret = NoMatrix
  /\ first = NoCall
  /\ \E labels \in [1..NTrain -> [1..1 -> {Zero, FromInt(1)}]] :
       elm = [ElmOff EXCEPT !.ip = 1, !.status = "running", !.trueT = labels]

\* H = sigmoid(temp_H)
ElmH ==
  /\ elm.status = "running" /\ Statement = "H"
  /\ \E h \in [1..NHidden -> [1..NTrain -> SigVals]] :
       elm' = Advance([elm EXCEPT !.H = h])
  /\ UNCHANGED <<G, pinvVars, first>>

\* H_cross = mp_pinv(H.T): the call
ElmCallPinv ==
  /\ elm.status = "running" /\ Statement = "H_cross"
  /\ Enter(Transpose(elm.H))
  /\ elm' = [elm EXCEPT !.calls = elm.calls + 1, !.status = "in mp_pinv"]
  /\ UNCHANGED first

\* H_cross = mp_pinv(H.T): the assignment, or the exception ending the run
ElmPinvDone ==
  /\ elm.status = "in mp_pinv" /\ pc = "done"
  /\ pc' = "idle"
  /\ elm' = IF outcome = "returned"
            THEN Advance([elm EXCEPT !.H_cross = ret, !.status = "running"])
            ELSE [elm EXCEPT !.status = "aborted"]
  /\ UNCHANGED <<G, m, n, transpose, A, L, M, Y, path, outcome, message, ret, first>>

\* beta_i = np.matmul(H_cross,true.T)
ElmBeta ==
  /\ elm.status = "running" /\ Statement = "beta_i"
  /\ elm' = Advance([elm EXCEPT !.beta_i = MatMul(elm.H_cross, elm.trueT)])
  /\ UNCHANGED <<G, pinvVars, first>>

\* Y = np.matmul(H.T,beta_i)
ElmY ==
  /\ elm.status = "running" /\ Statement = "Y"
  /\ elm' = Advance([elm EXCEPT !.Y = MatMul(Transpose(elm.H), elm.beta_i)])
  /\ UNCHANGED <<G, pinvVars, first>>

\* H_test = sigmoid(temp_Htest), for one held-out sample
ElmHtest ==
  /\ elm.status = "running" /\ Statement = "H_test"
  /\ \E h \in [1..NHidden -> [1..1 -> SigVals]] :
       elm' = Advance([elm EXCEPT !.H_test = h])
  /\ UNCHANGED <<G, pinvVars, first>>

\* testY = np.matmul(H_test.T,beta_i)
ElmTestY ==
  /\ elm.status = "running" /\ Statement = "testY"
  /\ elm' = Advance([elm EXCEPT
                       !.testY = MatMul(Transpose(elm.H_test), elm.beta_i)])
  /\ UNCHANGED <<G, pinvVars, first>>

\* np.where(testY <= 0.5,0,1)
Threshold(X) ==
  [i \in 1..Rows(X) |-> [j \in 1..Cols(X) |->
     IF FLess(Half, X[i][j]) THEN 1 ELSE 0]]

\* Ypred = np.where(testY <= 0.5,0,1)
ElmYpred ==
  /\ elm.status = "running" /\ Statement = "Ypred"
  /\ elm' = Advance([elm EXCEPT !.Ypred = Threshold(elm.testY)])
  /\ UNCHANGED <<G, pinvVars, first>>

NextElm ==
  \/ ElmH \/ ElmCallPinv \/ Step \/ ElmPinvDone \/ ElmBeta \/ ElmY
  \/ ElmHtest \/ ElmTestY \/ ElmYpred

SpecElm == InitElm /\ [][NextElm]_vars

----------------------------------------------------------------------------
(* Exact arithmetic on the values the floats stand for, used to state what *)
(* is true of a matrix (its rank, its conditioning) independently of the   *)
(* rounded computation.  An exact number is <<m, e>> with m odd or zero.   *)

RECURSIVE XNorm(_)
XNorm(a) ==
  IF a[1] = 0 THEN Zero
  ELSE IF a[1] % 2 = 0 THEN XNorm(<<a[1] \div 2, a[2] + 1>>)
  ELSE a

XMul(a, b) == XNorm(<<a[1] * b[1], a[2] + b[2]>>)

XAdd(a, b) ==
  LET x == XNorm(a)
      y == XNorm(b)
      e == IF x[2] < y[2] THEN x[2] ELSE y[2]
  IN IF x[1] = 0 THEN y
     ELSE IF y[1] = 0 THEN x
     ELSE XNorm(<<x[1] * 2^(x[2] - e) + y[1] * 2^(y[2] - e), e>>)

XSub(a, b) == XAdd(a, FNeg(b))

XLeq(a, b) == XSub(b, a)[1] >= 0

\* The sequence s without its j-th element.
Without(s, j) == [i \in 1..(Len(s) - 1) |-> IF i < j THEN s[i] ELSE s[i + 1]]

RECURSIVE Det(_, _, _)
RECURSIVE DetSum(_, _, _, _)
\* The minor of X on rows rs and columns cs, by expansion along its first row.
Det(X, rs, cs) ==
  IF Len(rs) = 1 THEN XNorm(X[rs[1]][cs[1]])
  ELSE DetSum(X, rs, cs, Len(cs))

DetSum(X, rs, cs, j) ==
  IF j = 0 THEN Zero
  ELSE LET term == XMul(X[rs[1]][cs[j]], Det(X, Tail(rs), Without(cs, j)))
       IN XAdd(DetSum(X, rs, cs, j - 1),
               IF j % 2 = 1 THEN term ELSE FNeg(term))

Increasing(k, N) ==
  {s \in [1..k -> 1..N] : \A i \in 1..(k - 1) : s[i] < s[i + 1]}

Min(a, b) == IF a < b THEN a ELSE b

\* rank(X) = min(rows, columns): some maximal minor is not zero.
FullRank(X) ==
  \E rs \in Increasing(Min(Rows(X), Cols(X)), Rows(X)) :
    \E cs \in Increasing(Min(Rows(X), Cols(X)), Cols(X)) :
      Det(X, rs, cs)[1] # 0

Square(X) == Rows(X) = Cols(X)

AllRows(X) == [i \in 1..Rows(X) |-> i]

RECURSIVE FrobSqFrom(_, _, _)
\* The sum of the squares of the entries from position (i, j) on.
FrobSqFrom(X, i, j) ==
  IF i > Rows(X) THEN Zero
  ELSE IF j > Cols(X) THEN FrobSqFrom(X, i + 1, 1)
  ELSE XAdd(XMul(X[i][j], X[i][j]), FrobSqFrom(X, i, j + 1))

\* The bound on cond + 1/cond below which a square matrix counts as
\* well-conditioned.
CondMax == 8

\* For a square X of order at most two, |X|_F^2 / |det X| = cond + 1/cond.
WellConditioned(X) ==
  /\ Square(X)
  /\ Rows(X) <= 2
  /\ LET d == Det(X, AllRows(X), AllRows(X))
     IN /\ d[1] # 0
        /\ XLeq(FrobSqFrom(X, 1, 1), XMul(<<CondMax, 0>>, FAbs(d)))

\* The tolerance, in units of the machine epsilon 2^(1 - MantBits), is
\* 2^TolBits.
TolBits == 7

Tolerance == <<2^(MantBits - 1), TolBits - 2 * (MantBits - 1)>>

RECURSIVE MaxAbsFrom(_, _, _)
\* The largest size of an entry from position (i, j) on, and at least 1.
MaxAbsFrom(X, i, j) ==
  IF i > Rows(X) THEN FromInt(1)
  ELSE IF j > Cols(X) THEN MaxAbsFrom(X, i + 1, 1)
  ELSE LET rest == MaxAbsFrom(X, i, j + 1)
       IN IF FLess(rest, FAbs(X[i][j])) THEN FAbs(X[i][j]) ELSE rest

\* X and Z agree entry by entry within the tolerance scaled to X's size.
Close(X, Z) ==
  /\ IsMatrix(X)
  /\ Shape(X) = Shape(Z)
  /\ \A i \in 1..Rows(X) : \A j \in 1..Cols(X) :
       ~FLess(FMul(Tolerance, MaxAbsFrom(X, 1, 1)), FAbs(FSub(X[i][j], Z[i][j])))

\* The four Moore-Penrose identities for X and a candidate pseudoinverse Z.
MoorePenrose(X, Z) ==
  /\ Close(X, MatMul(MatMul(X, Z), X))
  /\ Close(Z, MatMul(MatMul(Z, X), Z))
  /\ Close(MatMul(X, Z), Transpose(MatMul(X, Z)))
  /\ Close(MatMul(Z, X), Transpose(MatMul(Z, X)))

----------------------------------------------------------------------------
(* Claims about single calls (specification Spec).                         *)

\* C1: for every full-rank input G, the matrix mp_pinv returns satisfies the
\* four Moore-Penrose identities up to the tolerance.
C1_IdentitiesOnFullRank ==
  (pc = "done" /\ outcome = "returned" /\ FullRank(G)) => MoorePenrose(G, ret)

\* C2: whenever mp_pinv returns on an (m, n) input the result has shape
\* (n, m), in the wide and in the tall-or-square branch, and no matrix
\* product of either branch fails to conform.
C2_ShapeLaw ==
  /\ outcome # "ValueError"
  /\ pc \in {"cholesky", "inverse", "assemble", "return"} => IsMatrix(A)
  /\ pc \in {"assemble", "return"} => Shape(M) = Shape(L)
  /\ pc = "return" => Shape(Y) = <<Cols(G), Rows(G)>>
  /\ (pc = "done" /\ outcome = "returned") => Shape(ret) = <<Cols(G), Rows(G)>>

C2_Witness ==
  /\ pc = "done" /\ outcome = "returned"
  /\ transpose /\ Shape(G) = <<2, 3>> /\ Shape(ret) = <<3, 2>>

\* C3: for every rank-deficient input, mp_pinv ends in the Cholesky step's
\* error; it returns no matrix and reaches neither the inner inversion nor
\* the assembly.
C3_RankDeficientRaises ==
  (pc = "done" /\ ~FullRank(G)) =>
    /\ outcome = "LinAlgError" /\ message = NotPositiveDefinite
    /\ ~IsMatrix(M) /\ ~IsMatrix(Y) /\ ~IsMatrix(ret)

\* C5: the error outcome alone tells the caller whether the input was not
\* full-rank: the call ends in the factorization error exactly when the input
\* is rank-deficient, and any other failure is the singular-matrix error.
C5_ErrorTellsRank ==
  pc = "done" =>
    /\ (outcome = "LinAlgError" /\ message = NotPositiveDefinite) <=> ~FullRank(G)
    /\ (outcome # "returned" /\ FullRank(G)) => message = SingularMatrix

C10_TotalOnFullRank ==
  pc = "done" =>
    /\ outcome \in {"returned", "LinAlgError"}
    /\ FullRank(G) => (outcome = "returned" /\ path # "none")
    /\ message # SingularMatrix

----------------------------------------------------------------------------
(* Claims about sequences of calls (specification SpecSeq).                *)

C7_BothPaths ==
  (pc = "done" /\ first.set /\ G = Transpose(first.arg) /\ WellConditioned(G)) =>
    /\ transpose # first.transpose
    /\ Close(ret, Transpose(first.ret))

\* C7 as amended: for a square well-conditioned G, the calls on G and on its
\* transpose both take the direct path, and the results are transposes of
\* one another up to the tolerance.
C7_DirectBothTimes ==
  (pc = "done" /\ first.set /\ G = Transpose(first.arg) /\ WellConditioned(G)) =>
    /\ outcome = "returned" /\ first.outcome = "returned"
    /\ ~transpose /\ ~first.transpose /\ path = "direct"
    /\ Close(ret, Transpose(first.ret))

C7_Witness ==
  /\ pc = "done" /\ first.set /\ G = Transpose(first.arg) /\ G # first.arg
  /\ WellConditioned(G) /\ Shape(G) = <<2, 2>> /\ outcome = "returned"

----------------------------------------------------------------------------
(* Claims about the ELM cells (specification SpecElm).                     *)

\* C8: one run calls mp_pinv exactly once, in training and before beta_i;
\* beta_i is one product of that result with the labels; the test cell
\* scores with beta_i and calls mp_pinv no more.
C8_OnePinvCall ==
  /\ elm.calls <= 1
  /\ IsMatrix(elm.beta_i) =>
       /\ elm.calls = 1
       /\ IsMatrix(elm.H_cross)
       /\ elm.beta_i = MatMul(elm.H_cross, elm.trueT)
  /\ IsMatrix(elm.testY) =>
       /\ elm.calls = 1
       /\ elm.testY = MatMul(Transpose(elm.H_test), elm.beta_i)
  /\ elm.status = "finished" => (elm.calls = 1 /\ IsMatrix(elm.Ypred))

C8_Witness ==
  /\ elm.status = "finished" /\ elm.calls = 1 /\ IsMatrix(elm.Ypred)
  /\ elm.H_cross = ret
====
